---------------------------- MODULE Spec2Model ----------------------------
(***************************************************************************)
(* Model of the fetch tool of servers/fetch/main.py: the robots.txt check, *)
(* the retrieval of the target URL, the choice between the raw body and   *)
(* the simplified HTML, and the character window that is returned.        *)
(*                                                                         *)
(* Text is modelled by TLA+ strings; the i-th character of s is           *)
(* SubSeq(s, i, i).  A call blocks in requests.get twice (robots.txt,     *)
(* then the target): an action models the code from one blocking point    *)
(* to the next.                                                            *)
(***************************************************************************)
EXTENDS Integers, Sequences, FiniteSets, TLC

VARIABLES pc, args, gets, robots, response, content, result

vars == <<pc, args, gets, robots, response, content, result>>

-----------------------------------------------------------------------------
(* Bounds of the model *)

NumCalls == 2

MaxStartIndex == 17

MinStartIndex == 2

MaxMaxLength == 11

MinMaxLength == 2

-----------------------------------------------------------------------------
(* Program constants *)

DEFAULT_USER_AGENT_AUTONOMOUS ==
    "ModelContextProtocol/1.0 (Autonomous; +https://github.com/modelcontextprotocol/servers)"

SimplifyFailed == "<e>Page failed to be simplified from HTML<e>"

DefaultMaxLength == 5000

DefaultStartIndex == 0

MaxLengthLimit == 1000000

-----------------------------------------------------------------------------
(* Strings: str indexing, str.lower, str.find, the "in" operator *)

Char(s, i) == SubSeq(s, i, i)

Slice(s, from, to) == SubSeq(s, from, to)

UpperLetters == "ABCDEFGHIJKLMNOPQRSTUVWXYZ"

LowerLetters == "abcdefghijklmnopqrstuvwxyz"

Digits == "0123456789"

CharsOf(s) == { Char(s, i) : i \in 1..Len(s) }

LowerChar(ch) ==
    IF ch \in CharsOf(UpperLetters)
    THEN Char(LowerLetters, CHOOSE i \in 1..Len(UpperLetters) : Char(UpperLetters, i) = ch)
    ELSE ch

RECURSIVE Lower(_)
Lower(s) ==
    IF Len(s) = 0 THEN ""
    ELSE LowerChar(Char(s, 1)) \o Lower(Slice(s, 2, Len(s)))

\* the least position >= from of a character of chars in s, 0 when there is none
Find(s, chars, from) ==
    LET hits == { i \in from..Len(s) : Char(s, i) \in chars }
    IN  IF hits = {} THEN 0 ELSE CHOOSE i \in hits : \A j \in hits : i <= j

Contains(sub, s) ==
    \E i \in 1..(Len(s) - Len(sub) + 1) : Slice(s, i, i + Len(sub) - 1) = sub

StartsWith(s, prefix) ==
    Len(prefix) <= Len(s) /\ Slice(s, 1, Len(prefix)) = prefix

-----------------------------------------------------------------------------
(* urllib.parse.urlparse and urlunparse, as get_robots_txt_url uses them *)

SchemeChars == CharsOf(LowerLetters) \cup CharsOf(UpperLetters) \cup CharsOf(Digits) \cup {"+", "-", "."}

\* s up to position i, all of s when i = 0; s after position i, "" when i = 0
Before(s, i) == IF i = 0 THEN s ELSE Slice(s, 1, i - 1)

AfterPos(s, i) == IF i = 0 THEN "" ELSE Slice(s, i + 1, Len(s))

\* the position of the ":" that ends a scheme, 0 when the URL has no scheme
SchemeEnd(url) ==
    LET colon == Find(url, {":"}, 1)
    IN  IF /\ colon > 1
           /\ Char(url, 1) \in CharsOf(LowerLetters) \cup CharsOf(UpperLetters)
           /\ \A i \in 1..(colon - 1) : Char(url, i) \in SchemeChars
        THEN colon ELSE 0

\* the last position of the netloc in "//netloc/path...", 0 when there is no "//"
NetlocEnd(rest) ==
    LET delim == Find(rest, {"/", "?", "#"}, 3)
    IN  IF ~StartsWith(rest, "//") THEN 0
        ELSE IF delim = 0 THEN Len(rest) ELSE delim - 1

\* the position of the ";" that starts the params of the last path segment
ParamsAt(path) ==
    LET slashes == { i \in 1..Len(path) : Char(path, i) = "/" }
    IN  Find(path, {";"},
             IF slashes = {} THEN 1 ELSE CHOOSE i \in slashes : \A j \in slashes : j <= i)

SplitParams(scheme, netloc, rest, query, fragment) ==
    [scheme |-> scheme, netloc |-> netloc,
     path |-> Before(rest, ParamsAt(rest)), params |-> AfterPos(rest, ParamsAt(rest)),
     query |-> query, fragment |-> fragment]

SplitQuery(scheme, netloc, rest, fragment) ==
    SplitParams(scheme, netloc, Before(rest, Find(rest, {"?"}, 1)),
                AfterPos(rest, Find(rest, {"?"}, 1)), fragment)

SplitFragment(scheme, netloc, rest) ==
    SplitQuery(scheme, netloc, Before(rest, Find(rest, {"#"}, 1)),
               AfterPos(rest, Find(rest, {"#"}, 1)))

SplitNetloc(scheme, rest) ==
    IF NetlocEnd(rest) = 0 THEN SplitFragment(scheme, "", rest)
    ELSE SplitFragment(scheme, Slice(rest, 3, NetlocEnd(rest)),
                       Slice(rest, NetlocEnd(rest) + 1, Len(rest)))

urlparse(url) ==
    IF SchemeEnd(url) = 0 THEN SplitNetloc("", url)
    ELSE SplitNetloc(Lower(Slice(url, 1, SchemeEnd(url) - 1)),
                     Slice(url, SchemeEnd(url) + 1, Len(url)))

urlunparse(scheme, netloc, path, params, query, fragment) ==
    LET u1 == IF params = "" THEN path ELSE path \o ";" \o params
        u2 == IF netloc # ""
              THEN "//" \o netloc \o (IF u1 # "" /\ Char(u1, 1) # "/" THEN "/" \o u1 ELSE u1)
              ELSE u1
        u3 == IF scheme # "" THEN scheme \o ":" \o u2 ELSE u2
        u4 == IF query # "" THEN u3 \o "?" \o query ELSE u3
    IN  IF fragment # "" THEN u4 \o "#" \o fragment ELSE u4

\* variant: the query of the target URL is kept
get_robots_txt_url_keeps_query(url) ==
    LET parsed == urlparse(url)
    IN  urlunparse(parsed.scheme, parsed.netloc, "/robots.txt", "", parsed.query, "")

get_robots_txt_url(url) ==
    LET parsed == urlparse(url)
    IN  urlunparse(parsed.scheme, parsed.netloc, "/robots.txt", "", "", "")

-----------------------------------------------------------------------------
(* Protego.parse and can_fetch: the groups of a robots.txt text, the group *)
(* chosen for a user agent, and the longest rule matching the URL's path   *)

RECURSIVE SplitLines(_)
SplitLines(text) ==
    LET nl == Find(text, {"\n"}, 1)
    IN  IF nl = 0 THEN <<text>>
        ELSE <<Slice(text, 1, nl - 1)>> \o SplitLines(Slice(text, nl + 1, Len(text)))

RECURSIVE Strip(_)
Strip(s) ==
    IF Len(s) > 0 /\ Char(s, 1) = " " THEN Strip(Slice(s, 2, Len(s)))
    ELSE IF Len(s) > 0 /\ Char(s, Len(s)) = " " THEN Strip(Slice(s, 1, Len(s) - 1))
    ELSE s

\* one line as a directive: a field and a value, or junk
Directive(line) ==
    LET colon == Find(line, {":"}, 1)
    IN  IF colon = 0 THEN [field |-> "", value |-> ""]
        ELSE [field |-> Lower(Strip(Slice(line, 1, colon - 1))),
              value |-> Strip(Slice(line, colon + 1, Len(line)))]

\* the rules of the text, each with the user agents of its group
RECURSIVE RulesFrom(_, _, _)
RulesFrom(lines, agents, inRules) ==
    IF lines = <<>> THEN {}
    ELSE LET d    == Directive(Head(lines))
             rest == Tail(lines)
         IN  IF d.field = "user-agent"
             THEN RulesFrom(rest, IF inRules THEN {Lower(d.value)}
                                  ELSE agents \cup {Lower(d.value)}, FALSE)
             ELSE IF d.field \in {"allow", "disallow"} /\ agents # {}
             THEN (IF d.value = "" THEN {}
                   ELSE { [agent |-> a, allow |-> (d.field = "allow"), path |-> d.value]
                          : a \in agents })
                  \cup RulesFrom(rest, agents, TRUE)
             ELSE RulesFrom(rest, agents, inRules)

ProtegoParse(text) == RulesFrom(SplitLines(text), {}, FALSE)

\* the path a rule is matched against: path, params and query of the URL
RequestPath(url) ==
    LET p == urlparse(url)
    IN  urlunparse("", "", IF p.path = "" THEN "/" ELSE p.path, p.params, p.query, "")

can_fetch(rp, user_agent, url) ==
    LET ua       == Lower(user_agent)
        named    == { r \in rp : r.agent # "*" /\ Contains(r.agent, ua) }
        group    == IF named # {} THEN named ELSE { r \in rp : r.agent = "*" }
        matching == { r \in group : StartsWith(RequestPath(url), r.path) }
        longest  == { r \in matching : \A q \in matching : Len(q.path) <= Len(r.path) }
    IN  matching = {} \/ \E r \in longest : r.allow

-----------------------------------------------------------------------------
(* readabilipy's main-content extraction and markdownify, on a small HTML: *)
(* a <nav> block is page chrome, <h1> a heading, <p> a paragraph           *)

\* the text after the first occurrence of mark, "" when there is none
RECURSIVE After(_, _)
After(s, mark) ==
    IF Len(s) = 0 THEN ""
    ELSE IF StartsWith(s, mark) THEN Slice(s, Len(mark) + 1, Len(s))
    ELSE After(Slice(s, 2, Len(s)), mark)

RECURSIVE DropChrome(_)
DropChrome(html) ==
    IF Len(html) = 0 THEN ""
    ELSE IF StartsWith(html, "<nav>") THEN DropChrome(After(html, "</nav>"))
    ELSE Char(html, 1) \o DropChrome(Slice(html, 2, Len(html)))

RECURSIVE TextOf(_)
TextOf(html) ==
    IF Len(html) = 0 THEN ""
    ELSE IF Char(html, 1) = "<" THEN TextOf(After(html, ">"))
    ELSE Char(html, 1) \o TextOf(Slice(html, 2, Len(html)))

\* ret["content"]: the main content as HTML, "" when nothing readable is left
simple_json_content(html) ==
    LET main == DropChrome(html)
    IN  IF Strip(TextOf(main)) = "" THEN "" ELSE main

\* markdownify with heading_style=ATX
RECURSIVE markdownify(_)
markdownify(html) ==
    IF Len(html) = 0 THEN ""
    ELSE IF StartsWith(html, "<h1>") THEN "# " \o markdownify(Slice(html, 5, Len(html)))
    ELSE IF StartsWith(html, "</h1>") THEN "\n\n" \o markdownify(Slice(html, 6, Len(html)))
    ELSE IF StartsWith(html, "</p>") THEN "\n\n" \o markdownify(Slice(html, 5, Len(html)))
    ELSE IF Char(html, 1) = "<" THEN markdownify(After(html, ">"))
    ELSE Char(html, 1) \o markdownify(Slice(html, 2, Len(html)))

extract_content_from_html(html) ==
    LET ret == simple_json_content(html)
    IN  IF ret = "" THEN SimplifyFailed ELSE markdownify(ret)

-----------------------------------------------------------------------------
(* fetch_url after the response has arrived, and the window fetch returns *)

None == "<None>"

\* variant: an HTTPError for a 5xx status only
raise_for_status_server_errors_only(status) == 500 <= status /\ status < 600

\* response.raise_for_status(): an HTTPError for a 4xx or a 5xx status
raise_for_status(status) == 400 <= status /\ status < 600

\* response.headers.get("content-type", "").lower()
ContentTypeOf(resp) == Lower(IF resp.ctype = None THEN "" ELSE resp.ctype)

\* variant: the header is not lowercased
IsHtml_case_sensitive(resp) ==
    Contains("text/html", IF resp.ctype = None THEN "" ELSE resp.ctype)

IsHtml(resp) == Contains("text/html", ContentTypeOf(resp))

fetch_url_content(resp, force_raw) ==
    IF ~force_raw /\ IsHtml(resp) THEN extract_content_from_html(resp.text) ELSE resp.text

Min(a, b) == IF a <= b THEN a ELSE b

Max(a, b) == IF a >= b THEN a ELSE b

\* s[start:stop] of Python: a negative index counts from the end, and both
\* indexes are clamped to 0..len(s)
PySlice(s, start, stop) ==
    LET n  == Len(s)
        lo == IF start < 0 THEN Max(start + n, 0) ELSE Min(start, n)
        hi == IF stop < 0 THEN Max(stop + n, 0) ELSE Min(stop, n)
    IN  IF lo < hi THEN Slice(s, lo + 1, hi) ELSE ""

\* variants: the end of the slice off by one, either way
Window_inclusive_end(text, start_index, max_length) ==
    IF start_index >= Len(text) THEN ""
    ELSE PySlice(text, start_index, start_index + max_length + 1)

Window_short_by_one(text, start_index, max_length) ==
    IF start_index >= Len(text) THEN ""
    ELSE PySlice(text, start_index, start_index + max_length - 1)

\* fetch, lines 109-112
Window(text, start_index, max_length) ==
    IF start_index >= Len(text) THEN ""
    ELSE PySlice(text, start_index, start_index + max_length)

\* the Fetch parameter model: gt=0, lt=1000000, ge=0.  No code uses it
FetchModelAccepts(max_length, start_index) ==
    /\ max_length > 0
    /\ max_length < MaxLengthLimit
    /\ start_index >= 0

\* the tool's own signature: max_length: int, start_index: int
ToolAccepts(max_length, start_index) ==
    max_length \in Int /\ start_index \in Int

-----------------------------------------------------------------------------
(* The remote servers: what each robots.txt URL serves, which URLs never   *)
(* answer, and what a target URL may answer                                *)

RobotsDenyAll == "User-agent: *\nDisallow: /"

RobotsDenyPrivate ==
    "User-agent: ModelContextProtocol\nDisallow: /private\n\nUser-agent: *\nDisallow:"

RobotsSite(robots_txt_url) ==
    CASE robots_txt_url = "http://a.example/robots.txt" ->
            [status |-> 200, text |-> RobotsDenyAll]
      [] robots_txt_url = "https://b.example/robots.txt" ->
            [status |-> 200, text |-> RobotsDenyPrivate]
      [] robots_txt_url = "http://d.example/robots.txt" ->
            [status |-> 503, text |-> RobotsDenyAll]
      [] robots_txt_url = "http://e.example/robots.txt" ->
            [status |-> 200, text |-> "%PDF-1.4\n<< /Type /Catalog >>"]
      [] OTHER ->
            [status |-> 404, text |-> "<html><h1>Not Found</h1></html>"]

NeverResponds(url) ==
    url \in {"http://z.example/robots.txt", "http://c.example/slow"}

Urls ==
    {"http://a.example/page", "HTTPS://b.example/private/x?q=1#top",
     "https://b.example/index;v=1", "http://c.example/doc", "http://d.example/",
     "http://e.example/", "http://z.example/", "http://c.example/slow"}

Page == "<html><nav>Home | About</nav><h1>Title</h1><p>Hello world</p></html>"

ChromeOnly == "<html><nav>Home | About</nav> </html>"

Json == "{\"k\": [1, 2]}"

TargetResponses ==
    {[status |-> 200, ctype |-> "text/html", text |-> Page],
     [status |-> 200, ctype |-> "Text/HTML; charset=UTF-8", text |-> Page],
     [status |-> 200, ctype |-> "application/xhtml+xml", text |-> Page],
     [status |-> 200, ctype |-> None, text |-> Page],
     [status |-> 200, ctype |-> "text/html", text |-> ChromeOnly],
     [status |-> 200, ctype |-> "application/json", text |-> Json],
     [status |-> 204, ctype |-> None, text |-> ""],
     [status |-> 300, ctype |-> "text/html", text |-> "<p>Multiple Choices</p>"],
     [status |-> 404, ctype |-> "text/html", text |-> "<h1>Not Found</h1>"],
     [status |-> 500, ctype |-> None, text |-> "Internal Server Error"]}

WindowResponses ==
    {[status |-> 200, ctype |-> "text/plain", text |-> "0123456789ABCDEF"],
     [status |-> 200, ctype |-> "text/plain", text |-> ""],
     [status |-> 200, ctype |-> "text/html", text |-> ChromeOnly],
     [status |-> 200, ctype |-> "text/html", text |-> Page]}

FewResponses ==
    {[status |-> 200, ctype |-> "text/plain", text |-> "ok"],
     [status |-> 404, ctype |-> "text/html", text |-> "<h1>Not Found</h1>"]}

StartIndexes ==
    (-MinStartIndex..MaxStartIndex) \cup {Len(SimplifyFailed), Len(SimplifyFailed) + 1}

MaxLengths ==
    (-MinMaxLength..MaxMaxLength)
        \cup {DefaultMaxLength, MaxLengthLimit - 1, MaxLengthLimit}

-----------------------------------------------------------------------------
(* State *)

Calls == 1..NumCalls

NoArgs == [url |-> None, max_length |-> 0, start_index |-> 0, raw |-> FALSE]

NoRobots == [outcome |-> "none", status |-> 0, can_fetch |-> TRUE]

NoResponse == [status |-> 0, ctype |-> None, text |-> None]

NoResult == [kind |-> "none", value |-> None]

Init ==
    /\ pc = [c \in Calls |-> "idle"]
    /\ args = [c \in Calls |-> NoArgs]
    /\ gets = [c \in Calls |-> <<>>]
    /\ robots = [c \in Calls |-> NoRobots]
    /\ response = [c \in Calls |-> NoResponse]
    /\ content = [c \in Calls |-> None]
    /\ result = [c \in Calls |-> NoResult]

-----------------------------------------------------------------------------
(* check_may_autonomously_fetch_url: what the try block raises, and what   *)
(* the except clause lets through to fetch                                 *)

RaisedInTry(rec) ==
    IF rec.outcome = "error" THEN "ConnectionError"
    ELSE IF ~rec.can_fetch THEN "ValueError"
    ELSE None

\* variant: "except ValueError: pass"
ExceptPasses_value_errors_only(exc) == exc = "ValueError"

\* "except Exception as e: pass"
ExceptPasses(exc) == TRUE

Propagated(rec) ==
    LET exc == RaisedInTry(rec)
    IN  IF exc # None /\ ~ExceptPasses(exc) THEN exc ELSE None

\* fetch, from the return of the robots check to requests.get(url, headers)
AfterRobotsCheck(c, rec) ==
    /\ robots' = [robots EXCEPT ![c] = rec]
    /\ IF Propagated(rec) # None
       THEN /\ pc' = [pc EXCEPT ![c] = "failed"]
            /\ result' = [result EXCEPT ![c] = [kind |-> "error", value |-> Propagated(rec)]]
            /\ gets' = gets
       ELSE /\ pc' = [pc EXCEPT ![c] = "target_wait"]
            /\ gets' = [gets EXCEPT ![c] = Append(@,
                           [url |-> args[c].url, user_agent |-> DEFAULT_USER_AGENT_AUTONOMOUS])]
            /\ result' = result
    /\ UNCHANGED <<args, response, content>>

-----------------------------------------------------------------------------
(* Operations *)

\* fetch is called: the robots.txt URL is derived and requested
DoInvoke(c, url, max_length, start_index, raw) ==
    /\ pc[c] = "idle"
    /\ ToolAccepts(max_length, start_index)
    /\ args' = [args EXCEPT ![c] = [url |-> url, max_length |-> max_length,
                                    start_index |-> start_index, raw |-> raw]]
    /\ gets' = [gets EXCEPT ![c] = <<[url |-> get_robots_txt_url(url), user_agent |-> None]>>]
    /\ pc' = [pc EXCEPT ![c] = "robots_wait"]
    /\ UNCHANGED <<robots, response, content, result>>

\* the robots.txt response arrives: it is parsed whatever its status
RobotsResponse(c) ==
    /\ pc[c] = "robots_wait"
    /\ ~NeverResponds(gets[c][1].url)
    /\ LET resp == RobotsSite(gets[c][1].url)
           rp   == ProtegoParse(resp.text)
       IN  AfterRobotsCheck(c, [outcome |-> "parsed", status |-> resp.status,
                                can_fetch |-> can_fetch(rp, DEFAULT_USER_AGENT_AUTONOMOUS, args[c].url)])

\* requests.get of robots.txt raises (connection refused, DNS, ...)
RobotsError(c) ==
    /\ pc[c] = "robots_wait"
    /\ ~NeverResponds(gets[c][1].url)
    /\ AfterRobotsCheck(c, [outcome |-> "error", status |-> 0, can_fetch |-> TRUE])

\* the target's response arrives: fetch_url finishes and fetch returns
TargetResponse(c, resp) ==
    /\ pc[c] = "target_wait"
    /\ ~NeverResponds(args[c].url)
    /\ response' = [response EXCEPT ![c] = resp]
    /\ IF raise_for_status(resp.status)
       THEN /\ pc' = [pc EXCEPT ![c] = "failed"]
            /\ result' = [result EXCEPT ![c] = [kind |-> "error", value |-> "HTTPError"]]
            /\ content' = content
       ELSE LET text == fetch_url_content(resp, args[c].raw)
            IN  /\ content' = [content EXCEPT ![c] = text]
                /\ result' = [result EXCEPT ![c] =
                       [kind |-> "text",
                        value |-> Window(text, args[c].start_index, args[c].max_length)]]
                /\ pc' = [pc EXCEPT ![c] = "done"]
    /\ UNCHANGED <<args, gets, robots>>

\* requests.get of the target raises
TargetError(c) ==
    /\ pc[c] = "target_wait"
    /\ ~NeverResponds(args[c].url)
    /\ pc' = [pc EXCEPT ![c] = "failed"]
    /\ result' = [result EXCEPT ![c] = [kind |-> "error", value |-> "ConnectionError"]]
    /\ UNCHANGED <<args, gets, robots, response, content>>

-----------------------------------------------------------------------------
(* Specifications *)

\* one call, any URL and any response, a default and a short window
Invoke(c) ==
    \E url \in Urls, raw \in BOOLEAN, max_length \in {DefaultMaxLength, 10},
       start_index \in {DefaultStartIndex, 3} :
        DoInvoke(c, url, max_length, start_index, raw)

AnyTargetResponse(c) == \E resp \in TargetResponses : TargetResponse(c, resp)

Next ==
    \/ Invoke(1)
    \/ RobotsResponse(1)
    \/ RobotsError(1)
    \/ AnyTargetResponse(1)
    \/ TargetError(1)

Spec == Init /\ [][Next]_vars

\* the same, with fairness: a request to a server that responds does end,
\* with a response or with an error.  The code passes no timeout to
\* requests.get, so nothing ends a request to a server that never responds
FairSpec ==
    /\ Spec
    /\ WF_vars(RobotsError(1) \/ RobotsResponse(1))
    /\ WF_vars(TargetError(1) \/ AnyTargetResponse(1))

\* one call, every window: any max_length and start_index an int can hold
InvokeWindow(c) ==
    \E raw \in BOOLEAN, max_length \in MaxLengths, start_index \in StartIndexes :
        DoInvoke(c, "http://c.example/doc", max_length, start_index, raw)

WindowTargetResponse(c) == \E resp \in WindowResponses : TargetResponse(c, resp)

WindowNext ==
    \/ InvokeWindow(1)
    \/ RobotsResponse(1)
    \/ RobotsError(1)
    \/ WindowTargetResponse(1)
    \/ TargetError(1)

WindowSpec == Init /\ [][WindowNext]_vars

\* concurrent calls, any URL each, interleaved in any order
ConcurrentUrls ==
    {"http://a.example/page", "HTTPS://b.example/private/x?q=1#top",
     "http://c.example/doc", "http://z.example/"}

InvokeDefault(c) ==
    \E url \in ConcurrentUrls : DoInvoke(c, url, DefaultMaxLength, DefaultStartIndex, FALSE)

FewTargetResponse(c) == \E resp \in FewResponses : TargetResponse(c, resp)

ConcurrentNext ==
    \E c \in Calls :
        \/ InvokeDefault(c)
        \/ RobotsResponse(c)
        \/ RobotsError(c)
        \/ FewTargetResponse(c)
        \/ TargetError(c)

ConcurrentSpec == Init /\ [][ConcurrentNext]_vars

-----------------------------------------------------------------------------
(* Properties *)

Terminal(c) == pc[c] \in {"done", "failed"}

TargetGet(c) == [url |-> args[c].url, user_agent |-> DEFAULT_USER_AGENT_AUTONOMOUS]

\* the characters of text at the 0-based positions i with
\* start_index <= i < start_index + max_length
SubstringAt(text, start_index, max_length) ==
    SubSeq(text, Max(start_index, 0) + 1, Min(Len(text), start_index + max_length))

\* C1: whenever the robots document is retrieved and parsed and disallows the
\* target URL for the autonomous user agent, the call fails with the policy
\* error and issues no GET for the target URL.
C1_DisallowedFetchFailsBeforeGet ==
    \A c \in Calls :
        (robots[c].outcome = "parsed" /\ ~robots[c].can_fetch) =>
            /\ pc[c] = "failed"
            /\ result[c] = [kind |-> "error", value |-> "ValueError"]
            /\ Len(gets[c]) = 1

\* a text none of whose lines is a robots.txt directive
Malformed(text) ==
    \A i \in 1..Len(SplitLines(text)) :
        Directive(SplitLines(text)[i]).field \notin {"user-agent", "allow", "disallow"}

\* the robots request raised, or its response has a non-200 status or a
\* malformed content
RobotsUndeterminable(c) ==
    \/ robots[c].outcome = "error"
    \/ /\ robots[c].outcome = "parsed"
       /\ \/ robots[c].status # 200
          \/ Malformed(RobotsSite(gets[c][1].url).text)

\* C2: when the robots document cannot be retrieved or parsed (the request
\* raises, the content is malformed, the status is not 200), the check
\* reports nothing to the caller, the GET for the target URL is issued, and
\* the call ends as the target retrieval decides: an error of that
\* retrieval, or a text.
C2_FailOpen ==
    \A c \in Calls :
        RobotsUndeterminable(c) =>
            /\ pc[c] \in {"target_wait", "done", "failed"}
            /\ gets[c] = <<gets[c][1], TargetGet(c)>>
            /\ pc[c] = "failed" =>
                   \/ response[c] = NoResponse /\ result[c].value = "ConnectionError"
                   \/ response[c].status \in 400..599 /\ result[c].value = "HTTPError"
            /\ pc[c] = "done" => result[c].kind = "text" /\ response[c].status \notin 400..599

C2_Witness ==
    \E c \in Calls :
        /\ robots[c].outcome = "error"
        /\ pc[c] = "done"
        /\ Len(gets[c]) = 2

\* C3: for start_index >= 0 and max_length > 0 a successful fetch returns the
\* substring [start_index, min(len(text), start_index + max_length)) of the
\* normalized text: empty when start_index >= len(text), otherwise
\* min(max_length, len(text) - start_index) characters from start_index.
C3_WindowIsExactSubstring ==
    \A c \in Calls :
        (pc[c] = "done" /\ args[c].start_index >= 0 /\ args[c].max_length > 0) =>
            LET n == Len(content[c])
                s == args[c].start_index
                m == args[c].max_length
            IN  /\ result[c].value = SubstringAt(content[c], s, m)
                /\ Len(result[c].value) = IF s >= n THEN 0 ELSE Min(m, n - s)
                /\ \A i \in 1..Len(result[c].value) :
                       Char(result[c].value, i) = Char(content[c], s + i)

C3_Witness ==
    \E c \in Calls :
        /\ pc[c] = "done"
        /\ content[c] = "0123456789ABCDEF"
        /\ args[c].start_index = 14
        /\ args[c].max_length = 10
        /\ result[c].value = "EF"

C4_Scenario(c) ==
    /\ pc[c] = "done"
    /\ content[c] = "0123456789ABCDEF"
    /\ args[c].max_length = 10
    /\ args[c].start_index = 3

\* C4, as stated: max_length=10 and start_index=3 on the normalized text
\* "0123456789ABCDEF" return "3456789AB".
C4_ScenarioReturnsNineCharacters ==
    \A c \in Calls : C4_Scenario(c) => result[c].value = "3456789AB"

\* C4, amended: max_length=10 and start_index=3 on the normalized text
\* "0123456789ABCDEF" return the ten characters "3456789ABC".
C4_ScenarioReturnsTenCharacters ==
    \A c \in Calls : C4_Scenario(c) => result[c].value = "3456789ABC"

C4_Witness == \E c \in Calls : C4_Scenario(c)

\* C5: every call that returns a content window has 0 < max_length < 1,000,000
\* and start_index >= 0; a call outside these ranges is rejected without a
\* window, whatever the fetched text.
C5_WindowOnlyForValidatedParameters ==
    \A c \in Calls :
        pc[c] = "done" => FetchModelAccepts(args[c].max_length, args[c].start_index)

C7_RawOrNonHtmlIsBodyVerbatim ==
    \A c \in Calls :
        pc[c] = "done" =>
            LET header == IF response[c].ctype = None THEN "" ELSE response[c].ctype
                html   == Contains("text/html", Lower(header))
            IN  IF args[c].raw \/ ~html
                THEN content[c] = response[c].text
                ELSE content[c] = extract_content_from_html(response[c].text)

C7_Witness ==
    \E c \in Calls :
        /\ pc[c] = "done"
        /\ ~args[c].raw
        /\ response[c].ctype = None
        /\ response[c].text = Page
        /\ content[c] = Page

\* C8: when the response is HTML, raw is false and the extraction yields no
\* usable content, fetch does not fail: the normalized text is the sentinel
\* and the call returns the window [start_index, start_index + max_length)
\* of the sentinel, empty when start_index is at or past its length.
C8_SentinelIsPaginated ==
    \A c \in Calls :
        (/\ response[c] # NoResponse
         /\ ~raise_for_status(response[c].status)
         /\ ~args[c].raw
         /\ IsHtml(response[c])
         /\ simple_json_content(response[c].text) = "") =>
            /\ pc[c] = "done"
            /\ content[c] = SimplifyFailed
            /\ result[c].value =
                   SubstringAt(SimplifyFailed, args[c].start_index, args[c].max_length)
            /\ args[c].start_index >= Len(SimplifyFailed) => result[c].value = ""

\* the robots.txt URL of each target URL, written out
OwnRobotsUrl(url) ==
    CASE url = "http://a.example/page" -> "http://a.example/robots.txt"
      [] url = "HTTPS://b.example/private/x?q=1#top" -> "https://b.example/robots.txt"
      [] url = "http://c.example/doc" -> "http://c.example/robots.txt"
      [] url = "http://z.example/" -> "http://z.example/robots.txt"

\* C9: whatever the interleaving of concurrent calls, the robots document a
\* call consults is the one at /robots.txt, with no query or fragment, on the
\* scheme and host of its own target URL, and the decision it holds is the one
\* that document gives for its own URL.
C9_RobotsHostScoped ==
    \A c \in Calls :
        pc[c] # "idle" =>
            /\ gets[c][1].url = OwnRobotsUrl(args[c].url)
            /\ robots[c].outcome = "parsed" =>
                   /\ robots[c].status = RobotsSite(OwnRobotsUrl(args[c].url)).status
                   /\ robots[c].can_fetch =
                          can_fetch(ProtegoParse(RobotsSite(OwnRobotsUrl(args[c].url)).text),
                                    DEFAULT_USER_AGENT_AUTONOMOUS, args[c].url)

C9_Witness ==
    \E c, d \in Calls :
        /\ args[c].url = "http://a.example/page"
        /\ args[d].url = "http://c.example/doc"
        /\ pc[c] = "target_wait" /\ pc[d] = "target_wait"
        /\ robots[c].outcome = "parsed" /\ ~robots[c].can_fetch
        /\ robots[d].outcome = "parsed" /\ robots[d].can_fetch

\* C10: every fetch call eventually completes, even when a remote server
\* never responds: a call that has started ends with a result or an error.
C10_EveryCallCompletes ==
    \A c \in Calls : (pc[c] # "idle") ~> Terminal(c)

=============================================================================
